---------------------------- MODULE Spec2Model ----------------------------
(***************************************************************************)
(* A model of the rule-extraction pipeline of piton's Python learners:     *)
(*   lib.py                  clean_dataframe, replace_words,               *)
(*                           tree_to_ruleset                               *)
(*   sklearn_learner.py      the CART script                               *)
(*   wittgenstein_learner.py the RIPPERk / IREP script                     *)
(*                                                                         *)
(* Text is modelled character by character: a Python str is a sequence of  *)
(* one-character strings, so that str.replace and the regular expressions  *)
(* of the range-splitting pass are computed as Python computes them.       *)
(***************************************************************************)
EXTENDS Integers, Sequences, FiniteSets, TLC

VARIABLES
    pc,                 \* position of the running script
    script,             \* sys.argv[0]: the script that runs
    classifier,         \* sys.argv[1]
    th,                 \* maximum fraction of NaN per attribute, in percent
    table,              \* the table as read from the database (never changes)
    train,              \* the data frame `train`
    class_attr,         \* name of the class attribute
    class_attr_domain,  \* [negative_value, positive_value]
    domain_decode,      \* decode table of the categorical values
    X_train,            \* sklearn script: the feature columns
    y_train,            \* sklearn script: the booleanized class column
    features,           \* sklearn script: [{name, type}]
    clf,                \* sklearn script: the fitted tree
    i,                  \* wittgenstein script: the running token index
    attribute_encode,   \* wittgenstein script: name -> token
    attribute_decode,   \* wittgenstein script: token/structural key -> text
    output,             \* wittgenstein script: captured lines of out_model()
    rules,              \* wittgenstein script: the rules being normalized
    stdout,             \* everything printed so far, one entry per print()
    err                 \* how the run failed: an exit message or an exception

vars == << pc, script, classifier, th, table, train, class_attr, class_attr_domain,
           domain_decode, X_train, y_train, features, clf, i,
           attribute_encode, attribute_decode, output, rules, stdout, err >>

-----------------------------------------------------------------------------
(* Python str as a sequence of characters *)

Digits == {"0", "1", "2", "3", "4", "5", "6", "7", "8", "9"}
Whitespace == {" ", "\n", "\t"}

RECURSIVE Concat(_)
\* ''.join(parts)
Concat(parts) ==
    IF parts = << >> THEN << >> ELSE Head(parts) \o Concat(Tail(parts))

RECURSIVE Replace(_, _, _)
\* s.replace(old, new): every non-overlapping occurrence, left to right
Replace(s, old, new) ==
    IF Len(s) < Len(old) THEN s
    ELSE IF SubSeq(s, 1, Len(old)) = old
         THEN new \o Replace(SubSeq(s, Len(old) + 1, Len(s)), old, new)
         ELSE << Head(s) >> \o Replace(Tail(s), old, new)

RECURSIVE Contains(_, _)
\* old in s
Contains(s, old) ==
    IF Len(s) < Len(old) THEN FALSE
    ELSE SubSeq(s, 1, Len(old)) = old \/ Contains(Tail(s), old)

\* s.startswith(prefix)
StartsWith(s, prefix) ==
    Len(s) >= Len(prefix) /\ SubSeq(s, 1, Len(prefix)) = prefix

-----------------------------------------------------------------------------
(* Python's re: a pattern is a sequence of items, each a character class *)
(* with a greedy quantifier "1", "?", "*" or "+"; matching backtracks.   *)

Lit(c)      == [neg |-> FALSE, set |-> {c}, q |-> "1"]
Opt(c)      == [neg |-> FALSE, set |-> {c}, q |-> "?"]
Plus(c)     == [neg |-> FALSE, set |-> {c}, q |-> "+"]
Cls(S, q)   == [neg |-> FALSE, set |-> S, q |-> q]
NotCls(S, q) == [neg |-> TRUE, set |-> S, q |-> q]

InClass(c, it) == IF it.neg THEN c \notin it.set ELSE c \in it.set

RECURSIVE Run(_, _, _)
\* how many consecutive characters of s from pos lie in the item's class
Run(it, s, pos) ==
    IF pos <= Len(s) /\ InClass(s[pos], it) THEN 1 + Run(it, s, pos + 1) ELSE 0

RECURSIVE MatchAt(_, _, _, _)
RECURSIVE TryCount(_, _, _, _, _, _)
\* the position just after the match of re[k..] at pos, or 0 when none
MatchAt(re, k, s, pos) ==
    IF k > Len(re) THEN pos
    ELSE LET it  == re[k]
             run == Run(it, s, pos)
             lo  == IF it.q \in {"1", "+"} THEN 1 ELSE 0
             hi  == IF it.q \in {"1", "?"} /\ run > 1 THEN 1 ELSE run
         IN  TryCount(re, k, s, pos, hi, lo)
\* greedy: the longest repetition first, then shorter ones
TryCount(re, k, s, pos, n, lo) ==
    IF n < lo THEN 0
    ELSE LET r == MatchAt(re, k + 1, s, pos + n)
         IN  IF r # 0 THEN r ELSE TryCount(re, k, s, pos, n - 1, lo)

RECURSIVE FindAllFrom(_, _, _)
FindAllFrom(re, s, pos) ==
    IF pos > Len(s) THEN << >>
    ELSE LET e == MatchAt(re, 1, s, pos)
         IN  IF e = 0 THEN FindAllFrom(re, s, pos + 1)
             ELSE << SubSeq(s, pos, e - 1) >>
                  \o FindAllFrom(re, s, IF e = pos THEN pos + 1 ELSE e)
\* re.compile(re).findall(s): the non-overlapping matches, left to right
FindAll(re, s) == FindAllFrom(re, s, 1)

-----------------------------------------------------------------------------
(* str(n) and "{}".format(x) *)

DigitChar == << "0", "1", "2", "3", "4", "5", "6", "7", "8", "9" >>

RECURSIVE StrNat(_)
StrNat(n) ==
    IF n < 10 THEN << DigitChar[n + 1] >>
    ELSE StrNat(n \div 10) \o << DigitChar[(n % 10) + 1] >>
\* str(n) of a Python int
Str(n) == IF n < 0 THEN << "-" >> \o StrNat(0 - n) ELSE StrNat(n)

\* "{}".format(x) of a float x that is a multiple of one half; the model holds
\* such a float as the integer h = 2 * x
FormatHalf(h) ==
    IF h % 2 = 0 THEN Str(h \div 2) \o << ".", "0" >>
    ELSE (IF h < 0 THEN << "-" >> ELSE << >>)
         \o StrNat((IF h < 0 THEN 0 - h ELSE h) \div 2) \o << ".", "5" >>

-----------------------------------------------------------------------------
(* pandas: a data frame is an index (row labels) and an ordered list of    *)
(* columns; a cell is a record, na for NaN / None.  A float64 cell holds   *)
(* an integer-valued float, an object cell a str.                          *)

NaN     == [na |-> TRUE, v |-> 0]
None    == [na |-> TRUE, v |-> << >>]
Num(n)  == [na |-> FALSE, v |-> n]
Obj(s)  == [na |-> FALSE, v |-> s]

Column(name, dtype, data) == [name |-> name, dtype |-> dtype, data |-> data]
DataFrame(index, cols) == [index |-> index, cols |-> cols]

\* len(df.index)
NRows(df) == Len(df.index)
\* df.columns
Columns(df) == [k \in 1 .. Len(df.cols) |-> df.cols[k].name]
\* name in df.columns
HasColumn(df, name) == \E k \in 1 .. Len(df.cols) : df.cols[k].name = name
\* df[name]
Col(df, name) ==
    df.cols[CHOOSE k \in 1 .. Len(df.cols) : df.cols[k].name = name]

\* series.count(): the number of non-missing entries
Count(col) == Cardinality({k \in 1 .. Len(col.data) : ~col.data[k].na})
\* series.nunique(): the number of distinct non-missing values
nunique(col) ==
    Cardinality({col.data[k].v : k \in {j \in 1 .. Len(col.data) : ~col.data[j].na}})

RECURSIVE UniqueFrom(_, _)
UniqueFrom(data, seen) ==
    IF data = << >> THEN seen
    ELSE UniqueFrom(Tail(data),
                    IF \E k \in 1 .. Len(seen) : seen[k] = Head(data)
                    THEN seen ELSE Append(seen, Head(data)))
\* series.unique(): the distinct entries in order of first appearance;
\* a missing entry is one of them
unique(col) == UniqueFrom(col.data, << >>)

RECURSIVE Filter(_, _)
\* the entries of seq at the positions where mask holds
Filter(seq, mask) ==
    IF seq = << >> THEN << >>
    ELSE (IF Head(mask) THEN << Head(seq) >> ELSE << >>)
         \o Filter(Tail(seq), Tail(mask))

\* df[mask]: the rows where mask holds
KeepRows(df, mask) ==
    DataFrame(Filter(df.index, mask),
              [k \in 1 .. Len(df.cols) |->
                  Column(df.cols[k].name, df.cols[k].dtype,
                         Filter(df.cols[k].data, mask))])

\* df.dropna(axis='columns', thresh=t): the columns with at least t non-missing
DropNaColumns(df, t) ==
    DataFrame(df.index, SelectSeq(df.cols, LAMBDA c : Count(c) >= t))

\* df.dropna(subset=[name]): the rows where column name is not missing
DropNaRows(df, name) ==
    KeepRows(df, [k \in 1 .. NRows(df) |-> ~Col(df, name).data[k].na])

\* df.drop(name, axis='columns')
DropColumn(df, name) ==
    DataFrame(df.index, SelectSeq(df.cols, LAMBDA c : c.name # name))

\* series.map(lambda x: yes if x == val else no)
MapColumn(df, name, val, yes, no) ==
    DataFrame(df.index,
              [k \in 1 .. Len(df.cols) |->
                  IF df.cols[k].name = name
                  THEN Column(name, df.cols[k].dtype,
                              [r \in 1 .. Len(df.cols[k].data) |->
                                  IF df.cols[k].data[r] = val THEN yes ELSE no])
                  ELSE df.cols[k]])

\* df.rename(columns=enc): enc is a sequence of <<key, value>> pairs
Lookup(dict, key) ==
    dict[CHOOSE k \in 1 .. Len(dict) : dict[k][1] = key][2]
HasKey(dict, key) == \E k \in 1 .. Len(dict) : dict[k][1] = key
Rename(df, enc) ==
    DataFrame(df.index,
              [k \in 1 .. Len(df.cols) |->
                  Column(IF HasKey(enc, df.cols[k].name)
                         THEN Lookup(enc, df.cols[k].name) ELSE df.cols[k].name,
                         df.cols[k].dtype, df.cols[k].data)])

\* d[key] = value on an insertion-ordered dict
DictSet(dict, key, value) ==
    IF HasKey(dict, key)
    THEN [k \in 1 .. Len(dict) |->
             IF dict[k][1] = key THEN << key, value >> ELSE dict[k]]
    ELSE Append(dict, << key, value >>)

-----------------------------------------------------------------------------
(* lib.py *)

\* get_class_attr: df.columns[-2]
get_class_attr(df) == df.cols[Len(df.cols) - 1].name

\* is_binary
is_binary(attr) == nunique(attr) <= 2

\* mt.ceil((1 - cp) * n) for cp = p / 100
CeilThreshold(p, n) == ((100 - p) * n + 99) \div 100

RECURSIVE clear_any_nan_loop(_, _, _)
\* clear_numeric_nan_loop without the test of the column type: the rows with a
\* missing entry in any attribute go
clear_any_nan_loop(names, df, out) ==
    IF names = << >> THEN [df |-> df, out |-> out]
    ELSE LET column_name == Head(names)
             na_free     == DropNaRows(df, column_name)
             removed     == NRows(df) - NRows(na_free)
         IN  clear_any_nan_loop(Tail(names), na_free,
                 IF removed # 0
                 THEN Append(out, << Str(removed),
                          " rows have been removed, NaN value found in numeric attribute: ",
                          column_name, "\n" >>)
                 ELSE out)

RECURSIVE clear_numeric_nan_loop(_, _, _)
\* the loop of clear_numeric_nan over the column names of the frame it was
\* called with; df is rebound on every float64 column (na_free is bound
\* as the one element of a set, so that it is computed once)
clear_numeric_nan_loop(names, df, out) ==
    IF names = << >> THEN [df |-> df, out |-> out]
    ELSE LET column_name == Head(names)
         IN  IF Col(df, column_name).dtype = "float64"
             THEN CHOOSE r \in
                      {LET removed == NRows(df) - NRows(na_free)
                       IN  clear_numeric_nan_loop(Tail(names), na_free,
                               IF removed # 0
                               THEN Append(out, << Str(removed),
                                        " rows have been removed, NaN value found in numeric attribute: ",
                                        column_name, "\n" >>)
                               ELSE out)
                       : na_free \in {DropNaRows(df, column_name)}} : TRUE
             ELSE clear_numeric_nan_loop(Tail(names), df, out)

\* clear_numeric_nan: [df |-> the frame returned, out |-> what it printed]
clear_numeric_nan(df) ==
    LET r == clear_numeric_nan_loop(Columns(df), df, << >>)
    IN  [df |-> r.df, out |-> Append(r.out, << "\n\n" >>)]

\* clean_dataframe with the rows pruned before the columns
clean_dataframe_rows_first(df, cp) ==
    LET t       == CeilThreshold(cp, NRows(df))
        rows    == clear_numeric_nan(df)
        na_free == DropNaColumns(rows.df, t)
        only_na == SelectSeq(df.cols, LAMBDA c : ~HasColumn(na_free, c.name))
    IN  [df  |-> na_free,
         out |-> << << "removing cols with more than ", Str(NRows(df) - t),
                       " NaN values\n\n" >> >>
                 \o [k \in 1 .. Len(only_na) |->
                        << only_na[k].name, " has been removed\n" >>]
                 \o << << Str(Len(only_na)), " columns have been removed\n\n" >> >>
                 \o rows.out]

\* clean_dataframe: [df |-> the frame returned, out |-> what it printed]
clean_dataframe(df, cp) ==
    LET t       == CeilThreshold(cp, NRows(df))
        na_free == DropNaColumns(df, t)
        only_na == SelectSeq(df.cols, LAMBDA c : ~HasColumn(na_free, c.name))
        rows    == clear_numeric_nan(na_free)
    IN  [df  |-> rows.df,
         out |-> << << "removing cols with more than ", Str(NRows(df) - t),
                       " NaN values\n\n" >> >>
                 \o [k \in 1 .. Len(only_na) |->
                        << only_na[k].name, " has been removed\n" >>]
                 \o << << Str(Len(only_na)), " columns have been removed\n\n" >> >>
                 \o rows.out]

\* replace_words: words is an insertion-ordered dict
RECURSIVE replace_words(_, _)
replace_words(s, words) ==
    IF words = << >> THEN s
    ELSE replace_words(Replace(s, Head(words)[1], Head(words)[2]), Tail(words))

-----------------------------------------------------------------------------
(* lib.py: tree_to_ruleset.  A fitted sklearn tree is held as tree_ holds  *)
(* it: arrays over the node ids 0 .. node_count - 1, the root being node 0.*)
(* A threshold is held doubled (see FormatHalf).                           *)

\* sklearn.tree._tree.TREE_UNDEFINED
TREE_UNDEFINED == -2

\* "{}".format(v) of an entry of a domain: a missing entry prints as None
FormatCell(c) == IF c.na THEN << "N", "o", "n", "e" >> ELSE c.v

\* the result of a call that prints: what it printed and how it ended
\* ("" when it returned, else the exception or the exit message)
Printed(out, error) == [out |-> out, error |-> error]

\* print_rule with the last antecedent printed first
print_rule_last_first(rule) ==
    IF Len(rule) < 2
    THEN Printed(<< >>, << "IndexError: pop from empty list" >>)
    ELSE LET consequent      == rule[Len(rule)]
             last_antecedent == rule[Len(rule) - 1]
             rest            == SubSeq(rule, 1, Len(rule) - 2)
             rule_str ==
                 last_antecedent
                 \o Concat([k \in 1 .. Len(rest) |->
                               << " ", "A", "N", "D", " " >> \o rest[k]])
                 \o << " ", "=", ">", " " >> \o consequent
         IN  Printed(<< rule_str \o << "\n" >> >>, << >>)

\* print_rule: pops the consequent, then the last antecedent
print_rule(rule) ==
    IF Len(rule) < 2
    THEN Printed(<< >>, << "IndexError: pop from empty list" >>)
    ELSE LET consequent      == rule[Len(rule)]
             last_antecedent == rule[Len(rule) - 1]
             rest            == SubSeq(rule, 1, Len(rule) - 2)
             rule_str ==
                 Concat([k \in 1 .. Len(rest) |->
                            rest[k] \o << " ", "A", "N", "D", " " >>])
                 \o last_antecedent \o << " ", "=", ">", " " >> \o consequent
         IN  Printed(<< rule_str \o << "\n" >> >>, << >>)

\* the consequent of a leaf: tree_.value[node].T[0] is the weight of the
\* samples of class 0 in the leaf
LeafConsequent(value, dom) ==
    IF value[1] # 0 THEN dom[1] ELSE dom[2]

\* "({} <= {})".format(name, threshold) and its siblings
AntLe(name, threshold) ==
    << "(" >> \o name \o << " ", "<", "=", " " >> \o FormatHalf(threshold) \o << ")" >>
AntGt(name, threshold) ==
    << "(" >> \o name \o << " ", ">", " " >> \o FormatHalf(threshold) \o << ")" >>
AntEq(name, cell) ==
    << "(" >> \o name \o << " ", "=", " " >> \o FormatCell(cell) \o << ")" >>

RECURSIVE recurse(_, _, _, _)
\* recurse(node, depth, antecedents, domain_decode) in the context cx of
\* tree_to_ruleset: tree_, feature_name, feature_type, class_attr_domain
recurse(cx, node, antecedents, dd) ==
    IF cx.tree_.feature[node] # TREE_UNDEFINED
    THEN LET name      == cx.feature_name[node]
             type      == cx.feature_type[node]
             threshold == cx.tree_.threshold[node]
         IN  IF type = "float64"
             THEN LET l == recurse(cx, cx.tree_.children_left[node],
                                   Append(antecedents, AntLe(name, threshold)), dd)
                  IN  IF l.error # << >> THEN l
                      ELSE LET r == recurse(cx, cx.tree_.children_right[node],
                                       Append(antecedents, AntGt(name, threshold)), dd)
                           IN  Printed(l.out \o r.out, r.error)
             ELSE IF type = "int64"
             THEN IF ~HasKey(dd, name)
                  THEN Printed(<< >>, << "KeyError: ", name >>)
                  ELSE LET l == recurse(cx, cx.tree_.children_left[node],
                                    Append(antecedents, AntEq(name, Lookup(dd, name)[1])), dd)
                       IN  IF l.error # << >> THEN l
                           ELSE LET r == recurse(cx, cx.tree_.children_right[node],
                                            Append(antecedents,
                                                   AntEq(name, Lookup(dd, name)[2])), dd)
                                IN  Printed(l.out \o r.out, r.error)
             ELSE Printed(<< >>, << "Error: couldn't translate attribute " >> \o name
                                 \o << " of type ", type, ".\n" >>)
    ELSE print_rule(Append(antecedents,
                           LeafConsequent(cx.tree_.value[node], cx.class_attr_domain)))

\* tree_to_ruleset(decision_tree, features, class_attr_domain, domain_decode)
tree_to_ruleset(decision_tree, feats, dom, dd) ==
    LET tree_ == decision_tree.tree_
        feature_name ==
            [n \in DOMAIN tree_.feature |->
                IF tree_.feature[n] # TREE_UNDEFINED
                THEN feats[tree_.feature[n] + 1].name
                ELSE << "u", "n", "d", "e", "f", "i", "n", "e", "d", "!" >>]
        feature_type ==
            [n \in DOMAIN tree_.feature |->
                IF tree_.feature[n] # TREE_UNDEFINED
                THEN feats[tree_.feature[n] + 1].type
                ELSE "undefined!"]
    IN  recurse([tree_ |-> tree_, feature_name |-> feature_name,
                 feature_type |-> feature_type, class_attr_domain |-> dom],
                0, << >>, dd)

-----------------------------------------------------------------------------
(* sklearn: DecisionTreeClassifier.fit, the external learner.  Any binary  *)
(* tree the learner can return on (X, y) within max_depth: a node is split *)
(* only while it holds both classes, on a threshold midway between two     *)
(* adjacent values of a feature, and every node holds at least one sample. *)

MaxDepth == 2

\* the weights of class 0 and class 1 among the samples S
ClassCounts(y, S) ==
    << Cardinality({r \in S : y[r] = 0}), Cardinality({r \in S : y[r] = 1}) >>

TreeLeaf(y, S) ==
    [feature |-> TREE_UNDEFINED, threshold |-> TREE_UNDEFINED,
     value |-> ClassCounts(y, S), kids |-> << >>]

\* the doubled midpoints between adjacent values of feature f among S
Midpoints(X, S, f) ==
    LET vals == {X.cols[f].data[r].v : r \in S}
    IN  {ab[1] + ab[2] :
            ab \in {p \in vals \X vals :
                       p[1] < p[2] /\ ~\E m \in vals : p[1] < m /\ m < p[2]}}

\* the candidate splits of the samples S: << feature, doubled threshold >>
Splits(X, S) ==
    UNION {{<< f, h >> : h \in Midpoints(X, S, f)} : f \in 1 .. Len(X.cols)}

RECURSIVE TreesOf(_, _, _, _)
TreesOf(X, y, S, depth) ==
    {TreeLeaf(y, S)} \cup
    IF depth >= MaxDepth \/ \E c \in {0, 1} : \A r \in S : y[r] = c THEN {}
    ELSE UNION {
           {[feature |-> sp[1] - 1, threshold |-> sp[2], value |-> ClassCounts(y, S),
             kids |-> << l, r >>] :
               l \in TreesOf(X, y, {x \in S : 2 * X.cols[sp[1]].data[x].v <= sp[2]}, depth + 1),
               r \in TreesOf(X, y, {x \in S : 2 * X.cols[sp[1]].data[x].v > sp[2]}, depth + 1)}
           : sp \in Splits(X, S)}

RECURSIVE TreeSize(_)
TreeSize(t) ==
    IF t.kids = << >> THEN 1 ELSE 1 + TreeSize(t.kids[1]) + TreeSize(t.kids[2])

RECURSIVE TreeNodes(_, _)
\* the nodes of t in the order sklearn numbers them, t's root being node id
TreeNodes(t, id) ==
    IF t.kids = << >>
    THEN << [feature |-> t.feature, threshold |-> t.threshold, value |-> t.value,
             left |-> TREE_UNDEFINED + 1, right |-> TREE_UNDEFINED + 1] >>
    ELSE << [feature |-> t.feature, threshold |-> t.threshold, value |-> t.value,
             left |-> id + 1, right |-> id + 1 + TreeSize(t.kids[1])] >>
         \o TreeNodes(t.kids[1], id + 1)
         \o TreeNodes(t.kids[2], id + 1 + TreeSize(t.kids[1]))

\* the fitted classifier with its tree_ arrays
Classifier(t) ==
    LET nodes == TreeNodes(t, 0)
        ids   == 0 .. (Len(nodes) - 1)
    IN  [tree_ |-> [feature        |-> [n \in ids |-> nodes[n + 1].feature],
                    threshold      |-> [n \in ids |-> nodes[n + 1].threshold],
                    children_left  |-> [n \in ids |-> nodes[n + 1].left],
                    children_right |-> [n \in ids |-> nodes[n + 1].right],
                    value          |-> [n \in ids |-> nodes[n + 1].value]]]

\* every classifier fit(X, y) can return
Fitted(X, y) == {Classifier(t) : t \in TreesOf(X, y, 1 .. NRows(X), 0)}

-----------------------------------------------------------------------------
(* The tables the scripts are run on.  The package that calls the scripts  *)
(* puts the class attribute last but one and its row identifier last; the  *)
(* class attribute has no missing entry.                                   *)

MaxRows == 4

NO_x == << "N", "O", "_", "x" >>
ID_piton == << "__ID_piton__" >>

\* the rows of the tables: << numeric attribute, categorical attribute, class >>
Rows ==
    { << Num(0), Obj(<< "a" >>), Obj(NO_x) >>,
      << Num(1), Obj(<< "a" >>), Obj(<< "y" >>) >>,
      << Num(0), Obj(<< "b" >>), Obj(<< "y" >>) >>,
      << Num(1), Obj(<< "b" >>), Obj(NO_x) >>,
      << NaN,    Obj(<< "a" >>), Obj(<< "y" >>) >>,
      << Num(0), None,           Obj(NO_x) >> }

\* pd.read_sql_table: the frame of the rows rs, the first attribute being
\* named name and of type dtype
Table(name, dtype, rs) ==
    LET n == Len(rs)
    IN  DataFrame([r \in 1 .. n |-> r],
                  << Column(name, dtype, [r \in 1 .. n |-> rs[r][1]]),
                     Column(<< "s", "e", "x" >>, "object", [r \in 1 .. n |-> rs[r][2]]),
                     Column(<< "c", "l", "s" >>, "object", [r \in 1 .. n |-> rs[r][3]]),
                     Column(ID_piton, "int64", [r \in 1 .. n |-> Num(r)]) >>)

\* a numeric attribute is float64; a column without missing entries may
\* also be of another type (here bool)
Tables(names) ==
    {Table(nm, "float64", rs) : nm \in names, rs \in [1 .. MaxRows -> Rows]}
    \cup {Table(nm, "bool", rs) :
             nm \in names, rs \in {x \in [1 .. MaxRows -> Rows] : \A r \in 1 .. MaxRows : ~x[r][1].na}}

\* the values of th, in percent (0.1 is the default)
Thresholds == {10, 50}

-----------------------------------------------------------------------------
(* sklearn_learner.py *)

Unset == << >>

StartsWithNO(cell) == StartsWith(cell.v, << "N", "O", "_" >>)

\* lines 117-126: the loop over the attributes of X_train;
\* [X |-> X_train, dd |-> domain_decode]
RECURSIVE Booleanize(_, _, _)
Booleanize(names, X, dd) ==
    IF names = << >> THEN [X |-> X, dd |-> dd]
    ELSE LET attr == Head(names)
         IN  IF Col(X, attr).dtype = "object"
             THEN IF nunique(Col(X, attr)) < 2
                  THEN Booleanize(Tail(names), DropColumn(X, attr), dd)
                  ELSE LET domain == unique(Col(X, attr))
                           mapped == MapColumn(X, attr, domain[2], Num(1), Num(0))
                       IN  Booleanize(Tail(names),
                               DataFrame(mapped.index,
                                   [k \in 1 .. Len(mapped.cols) |->
                                       IF mapped.cols[k].name = attr
                                       THEN Column(attr, "int64", mapped.cols[k].data)
                                       ELSE mapped.cols[k]]),
                               DictSet(dd, attr, << domain[1], domain[2] >>))
             ELSE Booleanize(Tail(names), X, dd)

\* the domain left in encounter order
KeepDomain(dom) == dom

\* lines 134-137: the negative value first
OrderDomain(dom) ==
    IF StartsWithNO(dom[2])
    THEN [dom EXCEPT ![1] = dom[2], ![2] = dom[1]]
    ELSE dom

\* lines 101-106
SkClean ==
    /\ pc = "start"
    /\ LET dropped == DropColumn(train, ID_piton)
           cleaned == clean_dataframe(dropped, th)
       IN  /\ class_attr' = get_class_attr(train)
           /\ train' = cleaned.df
           /\ stdout' = stdout \o cleaned.out
    /\ pc' = "cleaned"
    /\ UNCHANGED << script, classifier, th, table, class_attr_domain, domain_decode, X_train,
                    y_train, features, clf, i, attribute_encode, attribute_decode,
                    output, rules, err >>

\* lines 108-126
SkBooleanize ==
    /\ pc = "cleaned"
    /\ LET X == DropColumn(train, class_attr)
           b == Booleanize(Columns(X), X, << >>)
       IN  /\ X_train' = b.X
           /\ domain_decode' = b.dd
    /\ y_train' = Col(train, class_attr)
    /\ pc' = "booleanized"
    /\ UNCHANGED << script, classifier, th, table, train, class_attr, class_attr_domain,
                    features, clf, i, attribute_encode, attribute_decode, output,
                    rules, stdout, err >>

\* lines 127-149
SkClassDomain ==
    /\ pc = "booleanized"
    /\ LET dom == [k \in 1 .. Len(unique(y_train)) |-> unique(y_train)[k].v]
       IN  IF Len(dom) < 2
           THEN /\ stdout' = Append(stdout,
                                << "Error: class attribute domain must have two values\n" >>)
                /\ pc' = "exit"
                /\ UNCHANGED << class_attr_domain, y_train, features >>
           ELSE LET ordered == OrderDomain([k \in 1 .. Len(dom) |-> Obj(dom[k])])
                IN  /\ class_attr_domain' = [k \in 1 .. Len(dom) |-> ordered[k].v]
                    /\ y_train' = [y_train EXCEPT !.data =
                                      [r \in 1 .. Len(y_train.data) |->
                                          IF y_train.data[r] = ordered[2]
                                          THEN Num(1) ELSE Num(0)]]
                    /\ features' = [k \in 1 .. Len(X_train.cols) |->
                                       [name |-> X_train.cols[k].name,
                                        type |-> X_train.cols[k].dtype]]
                    /\ stdout' = stdout
                    /\ pc' = "features"
    /\ UNCHANGED << script, classifier, th, table, train, class_attr, domain_decode, X_train,
                    clf, i, attribute_encode, attribute_decode, output, rules, err >>

\* lines 151-156 and 166-168
SkFit ==
    /\ pc = "features"
    /\ IF classifier # "CART"
       THEN /\ stdout' = Append(stdout,
                << "Error: the specified classifier is invalid. Only CART is available at the moment.\n" >>)
            /\ pc' = "exit"
            /\ UNCHANGED << clf, err >>
       ELSE IF NRows(X_train) = 0 \/ Len(X_train.cols) = 0
            THEN /\ pc' = "raised"
                 /\ err' = << "ValueError" >>
                 /\ UNCHANGED << clf, stdout >>
            ELSE /\ clf' \in Fitted(X_train, [r \in 1 .. NRows(X_train) |-> y_train.data[r].v])
                 /\ pc' = "fitted"
                 /\ UNCHANGED << stdout, err >>
    /\ UNCHANGED << script, classifier, th, table, train, class_attr, class_attr_domain,
                    domain_decode, X_train, y_train, features, i, attribute_encode,
                    attribute_decode, output, rules >>

\* line 163
SkPrintHeader ==
    /\ pc = "fitted"
    /\ stdout' = Append(stdout, << "extracted_rule_based_model: [\n\n" >>)
    /\ pc' = "header"
    /\ UNCHANGED << script, classifier, th, table, train, class_attr, class_attr_domain,
                    domain_decode, X_train, y_train, features, clf, i,
                    attribute_encode, attribute_decode, output, rules, err >>

\* line 164
SkTreeToRuleset ==
    /\ pc = "header"
    /\ LET r == tree_to_ruleset(clf, features, class_attr_domain, domain_decode)
       IN  /\ stdout' = stdout \o r.out
           /\ err' = r.error
           /\ pc' = IF r.error = << >> THEN "extracted"
                    ELSE IF r.error[1] = "Error: couldn't translate attribute "
                         THEN "exit" ELSE "raised"
    /\ UNCHANGED << script, classifier, th, table, train, class_attr, class_attr_domain,
                    domain_decode, X_train, y_train, features, clf, i,
                    attribute_encode, attribute_decode, output, rules >>

\* line 165
SkPrintFooter ==
    /\ pc = "extracted"
    /\ stdout' = Append(stdout, << "\n]\n" >>)
    /\ pc' = "done"
    /\ UNCHANGED << script, classifier, th, table, train, class_attr, class_attr_domain,
                    domain_decode, X_train, y_train, features, clf, i,
                    attribute_encode, attribute_decode, output, rules, err >>

AttrNames == { << "a", "g", "e" >> }

SkInit ==
    /\ pc = "start"
    /\ script = "sklearn_learner.py"
    /\ classifier \in {"CART", "C45"}
    /\ th \in Thresholds
    /\ table \in Tables(AttrNames)
    /\ train = table
    /\ class_attr = Unset
    /\ class_attr_domain = Unset
    /\ domain_decode = Unset
    /\ X_train = Unset
    /\ y_train = Unset
    /\ features = Unset
    /\ clf = Unset
    /\ i = 0
    /\ attribute_encode = Unset
    /\ attribute_decode = Unset
    /\ output = Unset
    /\ rules = Unset
    /\ stdout = << >>
    /\ err = << >>

SkNext ==
    \/ SkClean
    \/ SkBooleanize
    \/ SkClassDomain
    \/ SkFit
    \/ SkPrintHeader
    \/ SkTreeToRuleset
    \/ SkPrintFooter

\* a run of sklearn_learner.py
SpecCART == SkInit /\ [][SkNext]_vars

-----------------------------------------------------------------------------
(* Reading the printed ruleset block back *)

Header == << "extracted_rule_based_model: [\n\n" >>
Footer == << "\n]\n" >>

\* the position of the header in what was printed, 0 when it was not
HeaderPos(out) ==
    IF \E k \in 1 .. Len(out) : out[k] = Header
    THEN CHOOSE k \in 1 .. Len(out) : out[k] = Header
    ELSE 0

\* the rule lines printed after the header
RuleLines(out) ==
    IF HeaderPos(out) = 0 THEN << >>
    ELSE SelectSeq(SubSeq(out, HeaderPos(out) + 1, Len(out)), LAMBDA e : e # Footer)

EndsWith(s, suffix) ==
    Len(s) >= Len(suffix) /\ SubSeq(s, Len(s) - Len(suffix) + 1, Len(s)) = suffix

RECURSIVE FindSub(_, _, _)
\* s.find(sub) from position pos on (1-based), 0 when absent
FindSub(s, sub, pos) ==
    IF pos + Len(sub) - 1 > Len(s) THEN 0
    ELSE IF SubSeq(s, pos, pos + Len(sub) - 1) = sub THEN pos
         ELSE FindSub(s, sub, pos + 1)

RECURSIVE Split(_, _)
\* s.split(sep)
Split(s, sep) ==
    LET at == FindSub(s, sep, 1)
    IN  IF at = 0 THEN << s >>
        ELSE << SubSeq(s, 1, at - 1) >> \o Split(SubSeq(s, at + Len(sep), Len(s)), sep)

\* the antecedents of a rule line "ant1 AND ... AND antN => consequent\n"
Antecedents(line) ==
    Split(Split(line, << " ", "=", ">", " " >>)[1], << " ", "A", "N", "D", " " >>)

\* the leaves of the fitted tree, in increasing node id
Leaves(c) ==
    LET ids == DOMAIN c.tree_.feature
    IN  {n \in ids : c.tree_.feature[n] = TREE_UNDEFINED}
RECURSIVE SortedIds(_)
SortedIds(S) ==
    IF S = {} THEN << >>
    ELSE LET m == CHOOSE x \in S : \A z \in S : x <= z
         IN  << m >> \o SortedIds(S \ {m})

\* tree_to_ruleset has been called and has ended, one way or the other
TreeWalked == clf # Unset /\ pc \in {"extracted", "done", "exit", "raised"}

\* every feature is of a type tree_to_ruleset translates
SupportedFeatures ==
    \A k \in 1 .. Len(features) : features[k].type \in {"float64", "int64"}

\* antecedent text ant holds on row r of the cleaned training frame: it is
\* the rendering of a condition on an attribute that the row's value meets
HoldsOn(ant, r) ==
    \E k \in 1 .. Len(train.cols) :
        LET c == train.cols[k]
        IN  IF c.dtype = "object"
            THEN ant = AntEq(c.name, c.data[r])
            ELSE \E h \in 0 .. (2 * MaxRows) :
                    \/ ant = AntLe(c.name, h) /\ 2 * c.data[r].v <= h
                    \/ ant = AntGt(c.name, h) /\ 2 * c.data[r].v > h

\* the rule lines whose whole antecedent conjunction holds on row r
FiringRules(r) ==
    {k \in 1 .. Len(RuleLines(stdout)) :
        \A a \in 1 .. Len(Antecedents(RuleLines(stdout)[k])) :
            HoldsOn(Antecedents(RuleLines(stdout)[k])[a], r)}

-----------------------------------------------------------------------------
(* Claims on the tree rule extractor *)

\* C2: tree extraction emits exactly one rule per leaf: once tree_to_ruleset
\* has run on a fitted tree over translatable features, the number of rule
\* lines printed equals the number of leaves, also when the root is a leaf.
C2_OneRulePerLeaf ==
    (TreeWalked /\ SupportedFeatures)
        => Len(RuleLines(stdout)) = Cardinality(Leaves(clf))

\* C3: the consequent printed for a leaf is the class of the majority of the
\* training samples in the leaf: classDomain[1] when the positives outnumber
\* the negatives, classDomain[0] when the negatives outnumber the positives.
C3_MajorityConsequent ==
    (pc \in {"extracted", "done"})
        => \A k \in 1 .. Cardinality(Leaves(clf)) :
              LET value == clf.tree_.value[SortedIds(Leaves(clf))[k]]
                  line  == RuleLines(stdout)[k]
              IN  /\ value[2] > value[1]
                        => EndsWith(line, << " ", "=", ">", " " >>
                                          \o class_attr_domain[2] \o << "\n" >>)
                  /\ value[1] > value[2]
                        => EndsWith(line, << " ", "=", ">", " " >>
                                          \o class_attr_domain[1] \o << "\n" >>)

\* C7: partition property: once tree_to_ruleset has run on a fitted tree over
\* numeric and binary categorical features, every row has exactly one rule
\* whose antecedent conjunction holds on it.
C7_ExactlyOneRuleFires ==
    (TreeWalked /\ SupportedFeatures)
        => \A r \in 1 .. NRows(train) : Cardinality(FiringRules(r)) = 1

\* C9: all-or-nothing output: in a run that ended in a failure, neither the
\* header of the ruleset block nor any rule line has been printed.
C9_NoPartialOutput ==
    (pc \in {"exit", "raised"})
        => HeaderPos(stdout) = 0 /\ RuleLines(stdout) = << >>

-----------------------------------------------------------------------------
(* The data conditioner on its own: lines 101-106 of sklearn_learner.py    *)
(* (110-111 of wittgenstein_learner.py) on tables with two numeric         *)
(* attributes and a categorical one, any entry of which may be missing.    *)

\* the rows: << numeric, numeric, categorical >>
CondRows == {NaN, Num(0)} \X {NaN, Num(1)} \X {None, Obj(<< "a" >>)}

CondTable(rs) ==
    LET n == Len(rs)
    IN  DataFrame([r \in 1 .. n |-> r],
                  << Column(<< "a", "g", "e" >>, "float64", [r \in 1 .. n |-> rs[r][1]]),
                     Column(<< "b", "m", "i" >>, "float64", [r \in 1 .. n |-> rs[r][2]]),
                     Column(<< "s", "e", "x" >>, "object", [r \in 1 .. n |-> rs[r][3]]),
                     Column(<< "c", "l", "s" >>, "object", [r \in 1 .. n |-> Obj(<< "y" >>)]),
                     Column(ID_piton, "int64", [r \in 1 .. n |-> Num(r)]) >>)

CondInit ==
    /\ pc = "start"
    /\ script = "sklearn_learner.py"
    /\ classifier = "CART"
    /\ th \in Thresholds
    /\ table \in {CondTable(rs) : rs \in [1 .. MaxRows -> CondRows]}
    /\ train = table
    /\ class_attr = Unset
    /\ class_attr_domain = Unset
    /\ domain_decode = Unset
    /\ X_train = Unset
    /\ y_train = Unset
    /\ features = Unset
    /\ clf = Unset
    /\ i = 0
    /\ attribute_encode = Unset
    /\ attribute_decode = Unset
    /\ output = Unset
    /\ rules = Unset
    /\ stdout = << >>
    /\ err = << >>

\* clean_dataframe applied to every table
SpecCond == CondInit /\ [][SkClean]_vars

\* the position in the table of the row that is row r of train
RowOf(r) == train.index[r]

\* C5: conditioning keeps the missingness threshold: every attribute of the
\* returned frame has, over the returned rows, at least
\* ceil((1 - th) * rowCount) non-missing entries, rowCount being the number
\* of rows of the input.
C5_ThresholdKept ==
    (pc = "cleaned")
        => \A k \in 1 .. Len(train.cols) :
              Count(train.cols[k]) >= CeilThreshold(th, NRows(table))

\* C6: conditioning removes numeric missingness: no numeric attribute of the
\* returned frame has a missing entry, and every row of the input without a
\* missing numeric entry in the remaining attributes is retained, whatever
\* its categorical entries.
C6_NoNumericNaN ==
    (pc = "cleaned")
        => /\ \A k \in 1 .. Len(train.cols) :
                 train.cols[k].dtype = "float64"
                     => \A r \in 1 .. NRows(train) : ~train.cols[k].data[r].na
           /\ \A r \in 1 .. NRows(table) :
                 (\A k \in 1 .. Len(table.cols) :
                     (table.cols[k].dtype = "float64" /\ HasColumn(train, table.cols[k].name))
                         => ~table.cols[k].data[r].na)
                     => \E q \in 1 .. NRows(train) : RowOf(q) = r

\* C6 witness: a row was pruned for a missing numeric entry while a row with
\* a missing categorical entry, in an attribute that remains, is retained
C6_Witness ==
    /\ pc = "cleaned"
    /\ NRows(train) < NRows(table)
    /\ \E k \in 1 .. Len(train.cols) :
          /\ train.cols[k].dtype = "object"
          /\ \E r \in 1 .. NRows(train) : train.cols[k].data[r].na
    /\ \E k \in 1 .. Len(train.cols) : train.cols[k].dtype = "float64"

-----------------------------------------------------------------------------
(* wittgenstein: RIPPER / IREP, the external learner.  A fitted model is   *)
(* a list of rules, a rule a conjunction of conditions feature=value with  *)
(* at most one condition per feature; the value of a numeric feature is a  *)
(* bin "low-high", the value of a categorical one a value of the column.   *)

MaxRules == 2

\* the bins a numeric feature can be discretized into: << low, high >>
Bins ==
    { << << "-", "5", ".", "0" >>, << "1", "0", ".", "0" >> >>,
      << << "-", "5", ".", "0" >>, << "-", "2", ".", "0" >> >> }

Cond(feature, val, bin) == [feature |-> feature, val |-> val, bin |-> bin]

\* the conditions the learner can put on column c of the training frame
CondsOn(c) ==
    IF c.dtype = "object"
    THEN {Cond(c.name, c.data[r].v, << >>) : r \in 1 .. Len(c.data)}
    ELSE {Cond(c.name, b[1] \o << "-" >> \o b[2], b) : b \in Bins}

RECURSIVE RulesOver(_)
\* the conjunctions over the columns cols, at most one condition per column
RulesOver(cols) ==
    IF cols = << >> THEN {<< >>}
    ELSE LET rest == RulesOver(Tail(cols))
         IN  rest \cup {<< c >> \o r : c \in CondsOn(Head(cols)), r \in rest}

\* every ruleset fit(df, class_feat) can return: up to MaxRules different rules
Rulesets(df, class_feat) ==
    LET pool == RulesOver(SelectSeq(df.cols, LAMBDA c : c.name # class_feat)) \ {<< >>}
    IN  UNION {{rs \in [1 .. n -> pool] : \A a, b \in 1 .. n : a # b => rs[a] # rs[b]}
               : n \in 0 .. MaxRules}

\* str(cond), str(rule)
CondStr(c) == c.feature \o << "=" >> \o c.val
RuleStr(r) ==
    << "[" >>
    \o Concat([k \in 1 .. Len(r) |->
                  (IF k > 1 THEN << " ", "^", " " >> ELSE << >>) \o CondStr(r[k])])
    \o << "]" >>

\* the lines out_model() prints: "[[a=1 ^ b=2] V", "[c=3]]"
OutModel(ruleset) ==
    IF ruleset = << >> THEN << << "[", "]" >> >>
    ELSE [k \in 1 .. Len(ruleset) |->
             (IF k = 1 THEN << "[" >> ELSE << >>)
             \o RuleStr(ruleset[k])
             \o (IF k < Len(ruleset) THEN << " ", "V" >> ELSE << "]" >>)]

-----------------------------------------------------------------------------
(* wittgenstein_learner.py *)

\* "X" + str(i), without the final X
XTokenOpen(n) == << "X" >> \o Str(n)

\* "X" + str(i) + "X" and "Y" + str(i) + "Y"
XToken(n) == << "X" >> \o Str(n) \o << "X" >>
YToken(n) == << "Y" >> \o Str(n) \o << "Y" >>

RECURSIVE AttributeEncode(_, _, _)
\* lines 116-121: [enc |-> attribute_encode, i |-> i]
AttributeEncode(names, enc, n) ==
    IF names = << >> THEN [enc |-> enc, i |-> n]
    ELSE AttributeEncode(Tail(names), DictSet(enc, Head(names), XToken(n)), n + 1)

RECURSIVE DictSetAll(_, _)
DictSetAll(dict, pairs) ==
    IF pairs = << >> THEN dict
    ELSE DictSetAll(DictSet(dict, Head(pairs)[1], Head(pairs)[2]), Tail(pairs))

\* lines 123-132
AttributeDecode(enc, dom) ==
    DictSetAll([k \in 1 .. Len(enc) |-> << enc[k][2], enc[k][1] >>],
        << << << " ", "^", " " >>, << ")", " ", "A", "N", "D", " ", "(" >> >>,
           << << "=" >>, << " ", "=", " " >> >>,
           << << "V" >>, << "=", ">", " " >> \o dom[2] \o << "\n" >> >>,
           << << "[", "[" >>, << "(" >> >>,
           << << "]", "]" >>, << ")" >> >>,
           << << "[" >>, << "(" >> >>,
           << << "]" >>, << ")" >> >> >>)

RECURSIVE DomainDecode(_, _, _, _, _)
\* lines 137-147: [df |-> train, dd |-> domain_decode, i |-> i]
DomainDecode(names, df, dd, n, cls) ==
    IF names = << >> THEN [df |-> df, dd |-> dd, i |-> n]
    ELSE LET attribute == Head(names)
         IN  IF Col(df, attribute).dtype = "object"
             THEN IF nunique(Col(df, attribute)) < 2
                  THEN DomainDecode(Tail(names), DropColumn(df, attribute), dd, n, cls)
                  ELSE IF attribute # cls
                  THEN LET domain == unique(Col(df, attribute))
                       IN  DomainDecode(Tail(names),
                               MapColumn(df, attribute, domain[2],
                                         Obj(YToken(n)), Obj(XToken(n))),
                               DictSet(DictSet(dd, XToken(n), domain[1]),
                                       YToken(n), domain[2]),
                               n + 1, cls)
                  ELSE DomainDecode(Tail(names), df, dd, n, cls)
             ELSE DomainDecode(Tail(names), df, dd, n, cls)

\* the patterns of lines 188-207
NumberItems == << Opt("-"), Cls(Digits, "+"), Opt("."), Cls(Digits, "*") >>
pMatch ==
    << Lit("("), NotCls({"="}, "*"), Lit("="), Cls(Whitespace, "1") >>
    \o NumberItems \o << Plus("-"), Cls(Digits, "+"), Opt("."), Cls(Digits, "*"), Lit(")") >>
pAtt   == << Lit("("), NotCls({"="}, "*"), Lit("=") >>
pRange ==
    << Lit("="), Cls(Whitespace, "1") >>
    \o NumberItems \o << Plus("-"), Cls(Digits, "+"), Opt("."), Cls(Digits, "*"), Lit(")") >>
pLrng  == NumberItems
pRrng  == NumberItems \o << Lit(")") >>

\* lines 192-211: what one match is replaced with
SplitRange(match) ==
    LET fAtt == FindAll(pAtt, match)
        att  == SubSeq(fAtt[1], 1, Len(fAtt[1]) - 1)
        rng  == FindAll(pRange, match)[1]
        lrng == FindAll(pLrng, rng)[1]
        rrng == FindAll(pRrng, rng)[1]
    IN  Replace(match, rng,
                << ">", "=", " " >> \o lrng \o << ")", " ", "A", "N", "D", " " >>
                \o att \o << "<", "=", " " >> \o rrng)

RECURSIVE SplitMatches(_, _)
\* lines 191-213: the loop over the matches of one rule
SplitMatches(rule, matches) ==
    IF matches = << >> THEN rule
    ELSE SplitMatches(Replace(rule, Head(matches), SplitRange(Head(matches))),
                      Tail(matches))

\* lines 189-214 for one rule
RangeSplit(rule) == SplitMatches(rule, FindAll(pMatch, rule))

\* line 219
Cosmetic(rule) ==
    replace_words(rule, << << << "<", " ", "=", " " >>, << "<", "=" >> >>,
                           << << ">", " ", "=", " " >>, << ">", "=" >> >> >>)

\* lines 94-108
WtClassDomain ==
    /\ pc = "start"
    /\ class_attr' = get_class_attr(train)
    /\ LET cls == Col(train, get_class_attr(train))
           dom == [k \in 1 .. Len(unique(cls)) |-> unique(cls)[k]]
       IN  IF ~is_binary(cls)
           THEN /\ stdout' = Append(stdout, << "Error: class attribute is not binary\n" >>)
                /\ pc' = "exit"
                /\ UNCHANGED << class_attr_domain, err >>
           ELSE IF Len(dom) < 2
           THEN /\ pc' = "raised"
                /\ err' = << "IndexError: index 1 is out of bounds" >>
                /\ UNCHANGED << class_attr_domain, stdout >>
           ELSE /\ class_attr_domain' =
                       [k \in 1 .. Len(dom) |-> OrderDomain(dom)[k].v]
                /\ pc' = "domain"
                /\ UNCHANGED << stdout, err >>
    /\ UNCHANGED << script, classifier, th, table, train, domain_decode, X_train, y_train,
                    features, clf, i, attribute_encode, attribute_decode, output, rules >>

\* lines 110-111
WtClean ==
    /\ pc = "domain"
    /\ LET cleaned == clean_dataframe(DropColumn(train, ID_piton), th)
       IN  /\ train' = cleaned.df
           /\ stdout' = stdout \o cleaned.out
    /\ pc' = "cleaned"
    /\ UNCHANGED << script, classifier, th, table, class_attr, class_attr_domain, domain_decode,
                    X_train, y_train, features, clf, i, attribute_encode,
                    attribute_decode, output, rules, err >>

\* lines 116-132
WtEncode ==
    /\ pc = "cleaned"
    /\ LET e == AttributeEncode(Columns(train), << >>, 0)
       IN  /\ attribute_encode' = e.enc
           /\ i' = e.i
           /\ attribute_decode' = AttributeDecode(e.enc, class_attr_domain)
    /\ pc' = "encoded"
    /\ UNCHANGED << script, classifier, th, table, train, class_attr, class_attr_domain,
                    domain_decode, X_train, y_train, features, clf, output, rules,
                    stdout, err >>

\* lines 136-149
WtDomainDecode ==
    /\ pc = "encoded"
    /\ LET d == DomainDecode(Columns(train), train, << >>, i, class_attr)
       IN  /\ domain_decode' = d.dd
           /\ i' = d.i
           /\ train' = Rename(d.df, attribute_encode)
    /\ pc' = "renamed"
    /\ UNCHANGED << script, classifier, th, table, class_attr, class_attr_domain, X_train,
                    y_train, features, clf, attribute_encode, attribute_decode,
                    output, rules, stdout, err >>

\* lines 151-178: fit, then out_model() under Capturing
WtFit ==
    /\ pc = "renamed"
    /\ IF classifier \notin {"RIPPERk", "IREP"}
       THEN /\ stdout' = Append(stdout,
                << "Error: the specified classifier is invalid. Please choose between RIPPERk and IREP.\n" >>)
            /\ pc' = "exit"
            /\ UNCHANGED << clf, output >>
       ELSE /\ \E rs \in Rulesets(train, Lookup(attribute_encode, class_attr)) :
                 /\ clf' = [pos_class |-> IF classifier = "RIPPERk"
                                          THEN class_attr_domain[1]
                                          ELSE class_attr_domain[2],
                            ruleset_ |-> rs]
                 /\ output' = OutModel(rs)
            /\ pc' = "captured"
            /\ stdout' = stdout
    /\ UNCHANGED << script, classifier, th, table, train, class_attr, class_attr_domain,
                    domain_decode, X_train, y_train, features, i, attribute_encode,
                    attribute_decode, rules, err >>

\* the values of the dict as str: replace() takes no None
DecodeWords(dd) == [k \in 1 .. Len(dd) |-> << dd[k][1], dd[k][2].v >>]

\* lines 180-185
WtSubstitute ==
    /\ pc = "captured"
    /\ IF \E k \in 1 .. Len(domain_decode) : domain_decode[k][2].na
       THEN /\ pc' = "raised"
            /\ err' = << "TypeError: replace() argument 2 must be str" >>
            /\ rules' = << >>
       ELSE /\ rules' = [k \in 1 .. Len(output) |->
                           replace_words(replace_words(output[k], attribute_decode),
                                         DecodeWords(domain_decode))]
            /\ pc' = "decoded"
            /\ err' = err
    /\ UNCHANGED << script, classifier, th, table, train, class_attr, class_attr_domain,
                    domain_decode, X_train, y_train, features, clf, i,
                    attribute_encode, attribute_decode, output, stdout >>

\* lines 187-214
WtRangeSplit ==
    /\ pc = "decoded"
    /\ rules' = [k \in 1 .. Len(rules) |-> RangeSplit(rules[k])]
    /\ pc' = "split"
    /\ UNCHANGED << script, classifier, th, table, train, class_attr, class_attr_domain,
                    domain_decode, X_train, y_train, features, clf, i,
                    attribute_encode, attribute_decode, output, stdout, err >>

\* lines 216-223
WtPrint ==
    /\ pc = "split"
    /\ stdout' = Append(stdout, << "extracted_rule_based_model: [\n\n" >>)
                 \o [k \in 1 .. Len(rules) |-> Cosmetic(rules[k])]
                 \o << << " ", "=", ">", " " >> \o class_attr_domain[2]
                       \o << "\n", "(", ")", " ", "=", ">", " " >> \o class_attr_domain[1]
                       \o << "\n", "\n", "]", "\n" >> >>
    /\ pc' = "done"
    /\ UNCHANGED << script, classifier, th, table, train, class_attr, class_attr_domain,
                    domain_decode, X_train, y_train, features, clf, i,
                    attribute_encode, attribute_decode, output, rules, err >>

\* the rows of the tables of the rule-list script
WtMaxRows == 3
WtRows ==
    { << Num(0), Obj(<< "a" >>), Obj(NO_x) >>,
      << Num(1), Obj(<< "b" >>), Obj(<< "y" >>) >>,
      << Num(1), Obj(<< "a" >>), Obj(<< "y" >>) >>,
      << NaN,    None,           Obj(<< "y" >>) >>,
      << Num(1), None,           Obj(NO_x) >> }

WtAttrNames == { << "a", "g", "e" >>, << "V", "o", "l" >> }

WtInit ==
    /\ pc = "start"
    /\ script = "wittgenstein_learner.py"
    /\ classifier \in {"RIPPERk", "IREP", "CART"}
    /\ th \in Thresholds
    /\ table \in {Table(nm, "float64", rs) :
                     nm \in WtAttrNames, rs \in [1 .. WtMaxRows -> WtRows]}
    /\ train = table
    /\ class_attr = Unset
    /\ class_attr_domain = Unset
    /\ domain_decode = Unset
    /\ X_train = Unset
    /\ y_train = Unset
    /\ features = Unset
    /\ clf = Unset
    /\ i = 0
    /\ attribute_encode = Unset
    /\ attribute_decode = Unset
    /\ output = Unset
    /\ rules = Unset
    /\ stdout = << >>
    /\ err = << >>

WtNext ==
    \/ WtClassDomain
    \/ WtClean
    \/ WtEncode
    \/ WtDomainDecode
    \/ WtFit
    \/ WtSubstitute
    \/ WtRangeSplit
    \/ WtPrint

\* a run of wittgenstein_learner.py
SpecRules == WtInit /\ [][WtNext]_vars

-----------------------------------------------------------------------------
(* The rule-list normalizer *)

\* lines 180-185 for one line of text
Substitute(rule) ==
    replace_words(replace_words(rule, attribute_decode), DecodeWords(domain_decode))

\* lines 180-219 for one line of text
Normalize(rule) == Cosmetic(RangeSplit(Substitute(rule)))

\* '(a = low-high)' and '(a >= low) AND (a <= high)'
RangeText(a, low, high) ==
    << "(" >> \o a \o << " ", "=", " " >> \o low \o << "-" >> \o high \o << ")" >>
SplitText(a, low, high) ==
    << "(" >> \o a \o << " ", ">", "=", " " >> \o low
    \o << ")", " ", "A", "N", "D", " ", "(" >>
    \o a \o << " ", "<", "=", " " >> \o high \o << ")" >>

\* the tokens of both dictionaries
Tokens ==
    {attribute_encode[k][2] : k \in 1 .. Len(attribute_encode)}
    \cup {domain_decode[k][1] : k \in 1 .. Len(domain_decode)}

\* C1: range splitting keeps both bounds: once the range-splitting pass has
\* run, every condition '(a = low-high)' of the substituted text of a rule,
\* a an attribute name and low-high the bin of a numeric condition of that
\* rule, reads '(a >= low) AND (a <= high)' in the rule, low and high with
\* their value and sign.
C1_RangeSplitKeepsBounds ==
    (pc = "split")
        => \A k \in 1 .. Len(clf.ruleset_) :
              \A c \in 1 .. Len(clf.ruleset_[k]) :
                 LET cond == clf.ruleset_[k][c]
                     a    == Lookup(attribute_decode, cond.feature)
                 IN  (/\ cond.bin # << >>
                      /\ Contains(Substitute(output[k]),
                                  RangeText(a, cond.bin[1], cond.bin[2])))
                         => Contains(rules[k], SplitText(a, cond.bin[1], cond.bin[2]))

\* C4: the codec round-trips: once the substitution pass has run, the
\* substitution of the token of every attribute name is that name.
C4_CodecRoundTrip ==
    (pc = "decoded")
        => \A k \in 1 .. Len(attribute_encode) :
              Substitute(attribute_encode[k][2]) = attribute_encode[k][1]

\* C8: the normalizer is idempotent: a printed rule with no token and no
\* range left in it is unchanged by a second run of the substitution,
\* range-splitting and cosmetic passes.
C8_NormalizerIdempotent ==
    (pc = "done")
        => \A k \in 1 .. Len(rules) :
              LET text == Cosmetic(rules[k])
              IN  (/\ \A t \in Tokens : ~Contains(text, t)
                   /\ FindAll(pMatch, text) = << >>)
                      => Normalize(text) = text

\* C10: uninformative attributes get no token: every attribute that has a
\* token in attribute_encode is a column of the training frame, under its
\* name or its token, with at least two distinct values.
C10_NoTokenForUninformative ==
    (pc \in {"encoded", "renamed", "captured", "decoded", "split", "done"})
        => \A k \in 1 .. Len(attribute_encode) :
              LET name == attribute_encode[k][1]
                  tok  == attribute_encode[k][2]
              IN  IF HasColumn(train, name)
                  THEN nunique(Col(train, name)) >= 2
                  ELSE /\ HasColumn(train, tok)
                       /\ nunique(Col(train, tok)) >= 2

-----------------------------------------------------------------------------
(* Both learner scripts, on tables whose class attribute has one, two or   *)
(* three values, among them two with the prefix NO_                        *)

NO_z == << "N", "O", "_", "z" >>

LrnMaxRows == 3
LrnRows ==
    { << Num(0), Obj(<< "a" >>), Obj(NO_x) >>,
      << Num(1), Obj(<< "b" >>), Obj(<< "y" >>) >>,
      << Num(1), Obj(<< "a" >>), Obj(NO_z) >>,
      << Num(0), None,           Obj(<< "y" >>) >> }

LrnInit ==
    /\ pc = "start"
    /\ script \in {"sklearn_learner.py", "wittgenstein_learner.py"}
    /\ classifier \in {"CART", "RIPPERk", "IREP"}
    /\ th \in Thresholds
    /\ table \in {Table(<< "a", "g", "e" >>, "float64", rs) :
                     rs \in [1 .. LrnMaxRows -> LrnRows]}
    /\ train = table
    /\ class_attr = Unset
    /\ class_attr_domain = Unset
    /\ domain_decode = Unset
    /\ X_train = Unset
    /\ y_train = Unset
    /\ features = Unset
    /\ clf = Unset
    /\ i = 0
    /\ attribute_encode = Unset
    /\ attribute_decode = Unset
    /\ output = Unset
    /\ rules = Unset
    /\ stdout = << >>
    /\ err = << >>

LrnNext ==
    \/ (script = "sklearn_learner.py" /\ SkNext)
    \/ (script = "wittgenstein_learner.py" /\ WtNext)

\* a run of either script
SpecLearners == LrnInit /\ [][LrnNext]_vars

\* the ordering step has run on a class attribute with two values
Ordered == class_attr_domain # Unset /\ Len(class_attr_domain) = 2

\* the indexes of class_attr_domain whose value starts with NO_
NegativeSlots ==
    {k \in 1 .. 2 : StartsWith(class_attr_domain[k], << "N", "O", "_" >>)}

\* C11 as stated: after the ordering step, every value of a two-valued class
\* attribute that starts with NO_ is the first (negative) entry of
\* class_attr_domain.
C11_EveryNegativeFirst ==
    Ordered => \A k \in NegativeSlots : k = 1

\* C11 amended: after the ordering step of either script, when exactly one
\* of the two values of the class attribute starts with NO_, that value is
\* the first (negative) entry of class_attr_domain and the other value the
\* second (positive) one, whatever the encounter order.
C11_OneNegativeFirst ==
    (Ordered /\ Cardinality(NegativeSlots) = 1)
        => /\ NegativeSlots = {1}
           /\ class_attr_domain[1] # class_attr_domain[2]
           /\ \A k \in 1 .. 2 :
                 \E r \in 1 .. NRows(table) :
                    Col(table, class_attr).data[r].v = class_attr_domain[k]

\* C11 witness: the negative value was met second and is first after the
\* ordering step
C11_Witness ==
    /\ Ordered
    /\ NegativeSlots = {1}
    /\ unique(Col(table, class_attr))[1].v = class_attr_domain[2]

-----------------------------------------------------------------------------
(* The ruleset the rule-list script prints *)

Arrow == << " ", "=", ">", " " >>

\* what was printed after the header, as one text
WtEmitted == Concat(SubSeq(stdout, HeaderPos(stdout) + 1, Len(stdout)))

\* the rules of the printed ruleset: the lines "antecedent => consequent"
WtRuleLines ==
    SelectSeq(Split(WtEmitted, << "\n" >>), LAMBDA l : Contains(l, Arrow))

\* C12: the printed ruleset has one rule per induced rule, each with
\* consequent class_attr_domain[1] and a non-empty antecedent, followed by
\* exactly one default rule '() => class_attr_domain[0]'; so also when the
\* induced rule list is empty.
C12_TerminalClauses ==
    (pc = "done")
        => LET n == Len(WtRuleLines)
           IN  /\ n = Len(clf.ruleset_) + 1
               /\ WtRuleLines[n] = << "(", ")" >> \o Arrow \o class_attr_domain[1]
               /\ \A k \in 1 .. (n - 1) :
                     /\ EndsWith(WtRuleLines[k], Arrow \o class_attr_domain[2])
                     /\ Split(WtRuleLines[k], Arrow)[1] # << "(", ")" >>

\* the messages the scripts print for a class attribute they reject
ClassErrors ==
    { << "Error: class attribute domain must have two values\n" >>,
      << "Error: class attribute is not binary\n" >> }

\* C13: a class attribute with fewer than two distinct values is rejected
\* early: in either script the run gets no further than the class domain
\* check, fits no model, raises no exception, and ends with an error
\* message about the class attribute.
C13_RejectedEarly ==
    (nunique(Col(table, get_class_attr(table))) < 2)
        => /\ pc \in {"start", "cleaned", "booleanized", "exit"}
           /\ clf = Unset
           /\ (pc = "exit" => stdout[Len(stdout)] \in ClassErrors)

-----------------------------------------------------------------------------
(* The codec of the rule-list script on wide tables: the token indexes     *)
(* reach two digits                                                        *)

WideAttrs == 10
WideFree == 3
Kinds == {"numeric", "binary", "constant"}

\* column k of a wide table of two rows
WideColumn(k, kind) ==
    Column(<< "c" >> \o Str(k),
           IF kind = "numeric" THEN "float64" ELSE "object",
           IF kind = "numeric" THEN << Num(0), Num(1) >>
           ELSE IF kind = "binary" THEN << Obj(<< "a" >>), Obj(<< "b" >>) >>
           ELSE << Obj(<< "a" >>), Obj(<< "a" >>) >>)

\* the attributes kinds[1], kinds[2], ..., the class attribute, the ID
WideTable(kinds) ==
    DataFrame(<< 1, 2 >>,
              [k \in 1 .. Len(kinds) |-> WideColumn(k, kinds[k])]
              \o << Column(<< "c", "l", "s" >>, "object", << Obj(NO_x), Obj(<< "y" >>) >>),
                    Column(ID_piton, "int64", << Num(1), Num(2) >>) >>)

CodecInit ==
    /\ pc = "start"
    /\ script = "wittgenstein_learner.py"
    /\ classifier = "RIPPERk"
    /\ th \in Thresholds
    /\ table \in {WideTable(kinds) :
                     kinds \in {f \in [1 .. WideAttrs -> Kinds] :
                                   \A k \in (WideFree + 1) .. WideAttrs : f[k] = "numeric"}}
    /\ train = table
    /\ class_attr = Unset
    /\ class_attr_domain = Unset
    /\ domain_decode = Unset
    /\ X_train = Unset
    /\ y_train = Unset
    /\ features = Unset
    /\ clf = Unset
    /\ i = 0
    /\ attribute_encode = Unset
    /\ attribute_decode = Unset
    /\ output = Unset
    /\ rules = Unset
    /\ stdout = << >>
    /\ err = << >>

CodecNext ==
    \/ WtClassDomain
    \/ WtClean
    \/ WtEncode
    \/ WtDomainDecode

\* wittgenstein_learner.py up to the fit
SpecCodec == CodecInit /\ [][CodecNext]_vars

\* C14: tokens never cross-decode: once both dictionaries are built, there
\* is one token per encoded attribute and two per categorical attribute
\* retained, all different, and no token occurs inside another one.
C14_TokensApart ==
    (pc = "renamed")
        => /\ Len(domain_decode) = 2 * (i - Len(attribute_encode))
           /\ Cardinality(Tokens) = Len(attribute_encode) + Len(domain_decode)
           /\ \A s \in Tokens : \A t \in Tokens : s # t => ~Contains(t, s)

\* C14 witness: the tokens X1X and X10X of two attributes and the tokens
\* X11X and Y11Y of a categorical attribute are in the dictionaries
C14_Witness ==
    /\ pc = "renamed"
    /\ {XToken(1), XToken(10), XToken(11), YToken(11)} \subseteq Tokens

\* C15: the trained positive class is the emitted consequent: in the
\* printed ruleset every rule before the default rule has as consequent the
\* class value that was given to fit as pos_class, and the default rule has
\* the other value of the class domain.
C15_PosClassIsConsequent ==
    (pc = "done")
        => LET n == Len(WtRuleLines)
           IN  /\ \A k \in 1 .. (n - 1) :
                     EndsWith(WtRuleLines[k], Arrow \o clf.pos_class)
               /\ \E other \in {class_attr_domain[1], class_attr_domain[2]} \ {clf.pos_class} :
                     WtRuleLines[n] = << "(", ")" >> \o Arrow \o other

\* the non-missing values of column name of the table, on the rows that
\* are still in train
Observed(name) ==
    {Col(table, name).data[RowOf(q)] :
        q \in {r \in 1 .. NRows(train) : ~Col(table, name).data[RowOf(r)].na}}

\* sklearn_learner.py: the codes 0 / 1 of X_train decode to the value of train
SkDecodesBack ==
    \A k \in 1 .. Len(domain_decode) :
        LET attr == domain_decode[k][1]
            pair == domain_decode[k][2]
        IN  Cardinality(Observed(attr)) = 2
                => \A r \in 1 .. NRows(train) :
                      ~Col(train, attr).data[r].na
                          => pair[Col(X_train, attr).data[r].v + 1] = Col(train, attr).data[r]

\* wittgenstein_learner.py: the tokens of train decode to the value of table
WtDecodesBack ==
    \A k \in 1 .. Len(attribute_encode) :
        LET name == attribute_encode[k][1]
            tok  == attribute_encode[k][2]
        IN  (/\ HasColumn(train, tok)
             /\ Col(table, name).dtype = "object"
             /\ name # class_attr
             /\ Cardinality(Observed(name)) = 2)
                => \A q \in 1 .. NRows(train) :
                      ~Col(table, name).data[RowOf(q)].na
                          => /\ HasKey(domain_decode, Col(train, tok).data[q].v)
                             /\ Lookup(domain_decode, Col(train, tok).data[q].v)
                                   = Col(table, name).data[RowOf(q)]

\* C16: the decode of categorical values is faithful also with missing
\* entries: once domain_decode is built, for every retained categorical
\* attribute with exactly two distinct non-missing values, the code or token
\* of every non-missing entry decodes to the value of that entry.
C16_DecodesBack ==
    /\ (script = "sklearn_learner.py"
          /\ pc \in {"booleanized", "features", "fitted", "header", "extracted", "done"})
           => SkDecodesBack
    /\ (script = "wittgenstein_learner.py"
          /\ pc \in {"renamed", "captured", "decoded", "split", "done"})
           => WtDecodesBack

-----------------------------------------------------------------------------
(* The order and the grammar of the lines tree_to_ruleset prints *)

RECURSIVE InSubtree(_, _, _)
\* node n is in the subtree of c rooted at node root
InSubtree(c, root, n) ==
    \/ n = root
    \/ /\ c.tree_.feature[root] # TREE_UNDEFINED
       /\ \/ InSubtree(c, c.tree_.children_left[root], n)
          \/ InSubtree(c, c.tree_.children_right[root], n)

\* leaf a comes before leaf b depth-first, left before right: at the node
\* where their paths part, a is on the left
LeafBefore(c, a, b) ==
    \E m \in DOMAIN c.tree_.feature :
        /\ c.tree_.feature[m] # TREE_UNDEFINED
        /\ InSubtree(c, c.tree_.children_left[m], a)
        /\ InSubtree(c, c.tree_.children_right[m], b)

\* the k-th leaf in that order
LeafAt(c, k) ==
    CHOOSE a \in Leaves(c) :
        Cardinality({b \in Leaves(c) : LeafBefore(c, b, a)}) = k - 1

\* the antecedent of the branch of node m to its left (side 1) or right
\* (side 2) child
BranchText(c, m, side) ==
    LET f == features[c.tree_.feature[m] + 1]
    IN  IF f.type = "float64"
        THEN IF side = 1 THEN AntLe(f.name, c.tree_.threshold[m])
                         ELSE AntGt(f.name, c.tree_.threshold[m])
        ELSE AntEq(f.name, Lookup(domain_decode, f.name)[side])

RECURSIVE PathTexts(_, _, _)
\* the antecedents of the branches from node m down to the leaf
PathTexts(c, m, leaf) ==
    IF m = leaf THEN << >>
    ELSE IF InSubtree(c, c.tree_.children_left[m], leaf)
         THEN << BranchText(c, m, 1) >> \o PathTexts(c, c.tree_.children_left[m], leaf)
         ELSE << BranchText(c, m, 2) >> \o PathTexts(c, c.tree_.children_right[m], leaf)

RECURSIVE Join(_, _)
\* sep.join(seq)
Join(seq, sep) ==
    IF seq = << >> THEN << >>
    ELSE IF Len(seq) = 1 THEN seq[1]
         ELSE seq[1] \o sep \o Join(Tail(seq), sep)

\* 'ant1 AND ... AND antN => consequent'
GrammarLine(ants, consequent) ==
    Join(ants, << " ", "A", "N", "D", " " >>) \o Arrow \o consequent \o << "\n" >>

\* C17: the output order and the rule grammar: the lines tree_to_ruleset has
\* printed are, one after the other, the lines of the leaves of the tree in
\* depth-first, left-before-right order, each with the antecedents of its
\* path from the root to the leaf joined by ' AND ', then ' => ' and a value
\* of the class domain; when the traversal has ended normally there is a
\* line for every leaf.
C17_DepthFirstGrammar ==
    TreeWalked
        => LET lines == RuleLines(stdout)
           IN  /\ Len(lines) <= Cardinality(Leaves(clf))
               /\ \A k \in 1 .. Len(lines) :
                     \E consequent \in {class_attr_domain[1], class_attr_domain[2]} :
                        lines[k] = GrammarLine(PathTexts(clf, 0, LeafAt(clf, k)), consequent)
               /\ (pc \in {"extracted", "done"})
                     => Len(lines) = Cardinality(Leaves(clf))

\* C17 witness: a tree of three leaves has been printed, the lines of two of
\* the leaves with two antecedents and the line of the other with one
C17_Witness ==
    /\ pc = "extracted"
    /\ Cardinality(Leaves(clf)) = 3
    /\ Len(RuleLines(stdout)) = 3
    /\ \E k \in 1 .. 3 : Len(PathTexts(clf, 0, LeafAt(clf, k))) = 1
    /\ \E k \in 1 .. 3 : Len(Antecedents(RuleLines(stdout)[k])) = 2

-----------------------------------------------------------------------------
(* The order of the two prunings of clean_dataframe *)

\* the numeric attributes of the table that are not in train any more
DroppedNumeric ==
    {k \in 1 .. Len(table.cols) :
        table.cols[k].dtype = "float64" /\ ~HasColumn(train, table.cols[k].name)}

\* row r of the table has a missing numeric entry, and has none outside the
\* dropped attributes
MissingOnlyInDropped(r) ==
    /\ \E k \in DroppedNumeric : table.cols[k].data[r].na
    /\ \A k \in 1 .. Len(table.cols) :
          (table.cols[k].dtype = "float64" /\ table.cols[k].data[r].na)
              => k \in DroppedNumeric

\* C18: column pruning precedes row pruning: the attributes of the returned
\* frame are those with at least ceil((1 - th) * rowCount) non-missing
\* entries over the rows of the input, and a row whose missing numeric
\* entries all lie in dropped attributes is in the returned frame.
C18_ColumnsBeforeRows ==
    (pc = "cleaned")
        => /\ \A k \in 1 .. Len(table.cols) :
                 table.cols[k].name # ID_piton
                     => (HasColumn(train, table.cols[k].name)
                            <=> Count(table.cols[k]) >= CeilThreshold(th, NRows(table)))
           /\ \A r \in 1 .. NRows(table) :
                 MissingOnlyInDropped(r) => \E q \in 1 .. NRows(train) : RowOf(q) = r

\* C18 witness: a row with a missing entry in a dropped numeric attribute is
\* in the returned frame, and a row was pruned for another numeric attribute
C18_Witness ==
    /\ pc = "cleaned"
    /\ \E r \in 1 .. NRows(table) :
          MissingOnlyInDropped(r) /\ \E q \in 1 .. NRows(train) : RowOf(q) = r
    /\ NRows(train) < NRows(table)

=============================================================================
